---- MODULE Spec2Model ----
(***************************************************************************)
(* Model of the price-compare backend (src/main.py).                       *)
(*                                                                         *)
(* Spec         : the search endpoint run by concurrent request handlers   *)
(*                against the document store (collections product,         *)
(*                priceentry, searchrecord).  One action per store         *)
(*                operation of a handler: the store serialises single      *)
(*                operations, the handlers are not otherwise synchronised. *)
(* SpecHistory  : make_history, one loop iteration per action.             *)
(* SpecTrending : trending_deals, one loop iteration per action.           *)
(*                                                                         *)
(* Text is a sequence of one-character strings.  Prices are whole currency *)
(* units.  The random generator is a stream of draws fixed by the state s  *)
(* it has when a handler starts, and that state is a nondeterministic      *)
(* choice; random.uniform(a, b) is sampled at points of [a, b].            *)
(***************************************************************************)
EXTENDS Integers, Sequences, FiniteSets, Bags, TLC

\* ------------------------------------------------------------------ bounds
NumReqs == 2          \* search requests, any of them concurrent
NumSeeds == 1         \* distinct states of the random generator at a draw
MaxDays == 2          \* largest days argument of make_history
MaxLimit == 1         \* largest limit argument of trending_deals

\* --------------------------------------------------------------- catalogs
PLATFORMS ==
  <<"Amazon", "Flipkart", "Myntra", "AJIO", "Meesho", "Tata Cliq", "Croma">>

SAMPLE_IMAGES == <<"img-1511707171634", "img-1517336714731", "img-1512496015851">>

None == "None"

\* the absent "_id" key of a product document that was never inserted
NoId == 0

\* ------------------------------------------------------------------- text
LowerChar(c) ==
  CASE c = "I" -> "i"
    [] c = "P" -> "p"
    [] OTHER -> c

lower(text) == [i \in 1..Len(text) |-> LowerChar(text[i])]

IsSpace(c) == c = " "

RECURSIVE lstrip(_)
lstrip(text) ==
  IF text # <<>> /\ IsSpace(Head(text)) THEN lstrip(Tail(text)) ELSE text

RECURSIVE rstrip(_)
rstrip(text) ==
  IF text # <<>> /\ IsSpace(text[Len(text)])
    THEN rstrip(SubSeq(text, 1, Len(text) - 1))
    ELSE text

strip(text) == rstrip(lstrip(text))

\* str.split() without arguments: the maximal runs of non-space characters
RECURSIVE SplitFrom(_, _, _)
SplitFrom(text, cur, out) ==
  IF text = <<>>
    THEN IF cur = <<>> THEN out ELSE Append(out, cur)
    ELSE IF IsSpace(Head(text))
      THEN SplitFrom(Tail(text), <<>>, IF cur = <<>> THEN out ELSE Append(out, cur))
      ELSE SplitFrom(Tail(text), Append(cur, Head(text)), out)

split(text) == SplitFrom(text, <<>>, <<>>)

RECURSIVE join(_, _)
join(sep, words) ==
  IF words = <<>> THEN <<>>
  ELSE IF Len(words) = 1 THEN Head(words)
  ELSE Head(words) \o sep \o join(sep, Tail(words))

normalize(text) == join(<<" ">>, split(strip(lower(text))))

\* ------------------------------------------------------------ random draws
Seeds == 0..(NumSeeds - 1)

\* the k-th draw of a generator in state s, as a position in the sampled range
Draw(s, k) == (s + k) % 3

\* rand_price: base +/- 15 %, u = 0 the low end, 1 the centre, 2 the high end
rand_price(base, u) ==
  LET variance == (base * 15) \div 100
  IN  (base - variance) + u * variance

choice(seq, s) == seq[(s % Len(seq)) + 1]

UniformLo == 499
UniformHi == 49999
\* random.uniform(499, 49999), sampled at two points of the range
BasePrices == SelectSeq(<<600, 1900>>, LAMBDA b : UniformLo <= b /\ b <= UniformHi)

uniform_base(s) == choice(BasePrices, s)


\* ------------------------------------------------------------------ state
VARIABLES
  db,            \* TRUE when a document store is configured (db is not None)
  product,       \* collection "product", in insertion order
  priceentry,    \* collection "priceentry": for each product_id, the entries
                 \* that carry it, in insertion order
  searchrecord,  \* collection "searchrecord": a bag of documents
  req,           \* per request handler: its position and local variables
  hist,          \* the running make_history call
  trend          \* the running trending_deals call

vars == <<db, product, priceentry, searchrecord, req, hist, trend>>

Reqs == 1..NumReqs

\* the requests served: q, brand, category, price_min, price_max; a price bound
\* that was not given is <<>>, a given one is <<value>>
SearchArgs ==
  { [q |-> <<" ", "i", "P", " ", " ", "5", " ">>, brand |-> None,
     category |-> None, price_min |-> <<>>, price_max |-> <<>>],
    [q |-> <<"I", "p", " ", "5">>, brand |-> "Apple",
     category |-> "Mobiles", price_min |-> <<1615>>, price_max |-> <<1900>>],
    [q |-> <<"i", "p", " ", "5">>, brand |-> "Apple",
     category |-> None, price_min |-> <<1615>>, price_max |-> <<>>],
    [q |-> <<"i", "p", "5">>, brand |-> None,
     category |-> "Mobiles", price_min |-> <<>>, price_max |-> <<1900>>] }

NoDoc == [id |-> NoId, name |-> <<>>, normalized_name |-> <<>>, brand |-> None,
          category |-> None, image |-> None]

NoResponse == [query |-> <<>>, results |-> <<>>,
               filters |-> [category |-> None, brand |-> None,
                            price_min |-> <<>>, price_max |-> <<>>]]

IdleReq == [pc |-> "idle", q |-> <<>>, brand |-> None, category |-> None,
            price_min |-> <<>>, price_max |-> <<>>, rng |-> 0,
            product_doc |-> NoDoc,
            found |-> FALSE, prices |-> <<>>, response |-> NoResponse,
            status |-> 0, attempts |-> 0]

IdleHist == [pc |-> "idle", base |-> 0, days |-> 0, i |-> 0, cur |-> 0,
             start |-> 0, now |-> 0, pts |-> <<>>]

IdleTrend == [pc |-> "idle", limit |-> 0, rng |-> 0, items |-> <<>>]

\* ------------------------------------------------------- store operations
\* db["product"].find_one({"normalized_name": norm}): the first match, or none
Matching(norm) == SelectSeq(product, LAMBDA d : d.normalized_name = norm)

find_one(norm) == IF Matching(norm) = <<>> THEN NoDoc ELSE Head(Matching(norm))

\* every product is inserted by one request, so these are the ids there can be
ProductIds == 1..NumReqs

\* db["priceentry"].find({"product_id": pid})
find(pid) == priceentry[pid]

\* db["priceentry"].insert_many(seeded), all of one product_id
insert_many(pid, seeded) == [priceentry EXCEPT ![pid] = @ \o seeded]

\* insert_one(doc).inserted_id: a fresh ObjectId
NewId == Len(product) + 1

\* the per-platform entries of lines 131-148 and 176-193
Seeded(pid, base, s) ==
  [k \in 1..Len(PLATFORMS) |->
     [product_id |-> pid, platform |-> PLATFORMS[k],
      price |-> rand_price(base, Draw(s, k))]]

\* the entries of lines 157-170: never stored, no product_id
Ephemeral(base, s) ==
  [k \in 1..Len(PLATFORMS) |->
     [product_id |-> NoId, platform |-> PLATFORMS[k],
      price |-> rand_price(base, Draw(s, k))]]


\* ------------------------------------------------------- search_products
OtherVarsIdle == UNCHANGED <<hist, trend>>

\* mutant: the found record takes the brand of the request
ReturnExistingUpdated(existing, brand, category) ==
  [existing EXCEPT !.brand = brand]

\* line 113-114: an existing record is returned as it is
ReturnExisting(existing, brand, category) == existing

\* lines 116-124: the new sample product, not yet inserted
NewDoc(name, norm, brand, category, s) ==
  [id |-> NoId, name |-> name, normalized_name |-> norm, brand |-> brand,
   category |-> IF category = None THEN "General" ELSE category,
   image |-> choice(SAMPLE_IMAGES, s)]

\* The request arrives and ensure_product_in_db runs up to its first return or
\* its insert_one: normalize, find_one, build the new document.  Requests are
\* numbered in their order of arrival.
ensure_find_one(r) ==
  /\ req[r].pc = "idle"
  /\ \A o \in Reqs : o < r => req[o].pc # "idle"
  /\ \E a \in SearchArgs, s \in Seeds :
       LET norm == normalize(a.q)
           existing == IF db THEN find_one(norm) ELSE NoDoc
           args == [IdleReq EXCEPT !.q = a.q, !.brand = a.brand,
                                   !.category = a.category,
                                   !.price_min = a.price_min,
                                   !.price_max = a.price_max]
       IN  req' = [req EXCEPT ![r] =
             IF existing # NoDoc
               THEN [args EXCEPT !.pc = "fgp", !.found = TRUE,
                       !.product_doc = ReturnExisting(existing, a.brand, a.category)]
               ELSE [args EXCEPT !.pc = IF db THEN "insert_one" ELSE "fgp",
                       !.rng = s,
                       !.product_doc = NewDoc(a.q, norm, a.brand, a.category, s)]]
  /\ UNCHANGED <<db, product, priceentry, searchrecord>>
  /\ OtherVarsIdle

\* mutant: insert_one under a unique index on normalized_name, the stored
\* record adopted when there is one
ensure_insert_one_upsert(r) ==
  /\ req[r].pc = "insert_one"
  /\ LET stored == find_one(req[r].product_doc.normalized_name)
         doc == IF stored # NoDoc THEN stored
                ELSE [req[r].product_doc EXCEPT !.id = NewId]
     IN  /\ product' = IF stored # NoDoc THEN product ELSE Append(product, doc)
         /\ req' = [req EXCEPT ![r].pc = "insert_many", ![r].product_doc = doc]
  /\ UNCHANGED <<db, priceentry, searchrecord>>
  /\ OtherVarsIdle

\* line 128-129: insert_one, the document gets its _id
ensure_insert_one(r) ==
  /\ req[r].pc = "insert_one"
  /\ LET doc == [req[r].product_doc EXCEPT !.id = NewId]
     IN  /\ product' = Append(product, doc)
         /\ req' = [req EXCEPT ![r].pc = "insert_many", ![r].product_doc = doc]
  /\ UNCHANGED <<db, priceentry, searchrecord>>
  /\ OtherVarsIdle

\* lines 131-151: seed the platform prices of the new product
ensure_insert_many(r) ==
  /\ req[r].pc = "insert_many"
  /\ priceentry' = insert_many(req[r].product_doc.id,
       Seeded(req[r].product_doc.id, uniform_base(req[r].rng), req[r].rng))
  /\ req' = [req EXCEPT ![r].pc = "fgp"]
  /\ UNCHANGED <<db, product, searchrecord>>
  /\ OtherVarsIdle

\* mutant: the bounds exclusive
in_range_exclusive(v, price_min, price_max) ==
  IF price_min # <<>> /\ v <= price_min[1] THEN FALSE
  ELSE IF price_max # <<>> /\ v >= price_max[1] THEN FALSE
  ELSE TRUE

\* lines 234-239
in_range(v, price_min, price_max) ==
  IF price_min # <<>> /\ v < price_min[1] THEN FALSE
  ELSE IF price_max # <<>> /\ v > price_max[1] THEN FALSE
  ELSE TRUE

\* lines 233-240
apply_filters(prices, price_min, price_max) ==
  IF price_min # <<>> \/ price_max # <<>>
    THEN SelectSeq(prices, LAMBDA p : in_range(p.price, price_min, price_max))
    ELSE prices

\* lines 249-252: PlatformPrice(**p) keeps the declared fields
PlatformPrice(p) == [platform |-> p.platform, price |-> p.price]

\* lines 243-253; an id of NoId stands for the fresh ObjectId() of line 244
ProductResult(doc, prices) ==
  [id |-> doc.id, name |-> doc.name, brand |-> doc.brand,
   category |-> doc.category, image |-> doc.image,
   platforms |-> [k \in 1..Len(prices) |-> PlatformPrice(prices[k])]]

\* lines 255-265
SearchResponse(a) ==
  [query |-> a.q,
   results |-> <<ProductResult(a.product_doc,
                   apply_filters(a.prices, a.price_min, a.price_max))>>,
   filters |-> [category |-> a.category, brand |-> a.brand,
                price_min |-> a.price_min, price_max |-> a.price_max]]

\* lines 232-265 follow the return of find_or_generate_prices without a store
\* operation in between: filter and assemble the response
Respond(a, prices) ==
  LET b == [a EXCEPT !.prices = prices]
  IN  [b EXCEPT !.pc = "record", !.response = SearchResponse(b)]

\* lines 155-171: no store, or a document without _id: ephemeral prices
fgp_ephemeral(r) ==
  /\ req[r].pc = "fgp"
  /\ (~db \/ req[r].product_doc.id = NoId)
  /\ req' = [req EXCEPT ![r] =
         Respond(@, Ephemeral(uniform_base(req[r].rng + 1), req[r].rng + 1))]
  /\ UNCHANGED <<db, product, priceentry, searchrecord>>
  /\ OtherVarsIdle

\* mutant: the stored entries are read and new ones seeded all the same
fgp_find_regen(r) ==
  /\ req[r].pc = "fgp"
  /\ db /\ req[r].product_doc.id # NoId
  /\ req' = [req EXCEPT ![r].pc = "fgp_insert_many"]
  /\ UNCHANGED <<db, product, priceentry, searchrecord>>
  /\ OtherVarsIdle

\* lines 173-175 and 197: pull from the store; the stored entries are returned
fgp_find(r) ==
  /\ req[r].pc = "fgp"
  /\ db /\ req[r].product_doc.id # NoId
  /\ LET items == find(req[r].product_doc.id)
     IN  req' = [req EXCEPT ![r] =
           IF items = <<>> THEN [@ EXCEPT !.pc = "fgp_insert_many"]
                           ELSE Respond(@, items)]
  /\ UNCHANGED <<db, product, priceentry, searchrecord>>
  /\ OtherVarsIdle

\* lines 176-197: nothing stored yet, seed now and return the seeded entries
fgp_insert_many(r) ==
  /\ req[r].pc = "fgp_insert_many"
  /\ \E s \in Seeds :
       LET seeded == Seeded(req[r].product_doc.id, uniform_base(s + 1), s + 1)
       IN  /\ priceentry' = insert_many(req[r].product_doc.id, seeded)
           /\ req' = [req EXCEPT ![r] = Respond(@, seeded)]
  /\ UNCHANGED <<db, product, searchrecord>>
  /\ OtherVarsIdle

\* lines 270-277: the document handed to create_document
SearchRecord(a) ==
  [query |-> a.q, brand |-> a.brand, category |-> a.category,
   price_min |-> a.price_min, price_max |-> a.price_max,
   results_count |-> Len(a.response.results[1].platforms)]

\* mutant: no try/except around create_document
persist_search_record_uncaught(r) ==
  /\ req[r].pc = "record"
  /\ IF db
       THEN \E ok \in BOOLEAN :
              /\ searchrecord' = IF ok THEN searchrecord (+) SetToBag({SearchRecord(req[r])})
                                       ELSE searchrecord
              /\ req' = [req EXCEPT ![r] =
                    IF ok THEN [@ EXCEPT !.pc = "done", !.status = 200,
                                         !.attempts = @ + 1]
                          ELSE [IdleReq EXCEPT !.pc = "failed", !.status = 500,
                                               !.attempts = 1]]
       ELSE /\ searchrecord' = searchrecord
            /\ req' = [req EXCEPT ![r].pc = "done", ![r].status = 200]
  /\ UNCHANGED <<db, product, priceentry>>
  /\ OtherVarsIdle

\* mutant: the test of line 269 inverted, no record written with a store
persist_search_record_skipped(r) ==
  /\ req[r].pc = "record"
  /\ searchrecord' = searchrecord
  /\ req' = [req EXCEPT ![r].pc = "done", ![r].status = 200]
  /\ UNCHANGED <<db, product, priceentry>>
  /\ OtherVarsIdle

\* lines 267-281: best-effort search record, then return the response;
\* ok = FALSE is create_document raising
persist_search_record(r) ==
  /\ req[r].pc = "record"
  /\ IF db
       THEN \E ok \in BOOLEAN :
              /\ searchrecord' = IF ok THEN searchrecord (+) SetToBag({SearchRecord(req[r])})
                                       ELSE searchrecord
              /\ req' = [req EXCEPT ![r].pc = "done", ![r].status = 200,
                                    ![r].attempts = @ + 1]
       ELSE /\ searchrecord' = searchrecord
            /\ req' = [req EXCEPT ![r].pc = "done", ![r].status = 200]
  /\ UNCHANGED <<db, product, priceentry>>
  /\ OtherVarsIdle

\* A store operation of product or price resolution raises (lines 112, 128,
\* 150, 173, 195) and has had no effect on the store: nothing catches it,
\* the request fails and its local variables are gone.
StoreOps == {"insert_one", "insert_many", "fgp_insert_many"}

store_error(r) ==
  /\ db
  /\ \/ req[r].pc = "idle" /\ \A o \in Reqs : o < r => req[o].pc # "idle"
     \/ req[r].pc \in StoreOps
     \/ req[r].pc = "fgp" /\ req[r].product_doc.id # NoId
  /\ req' = [req EXCEPT ![r] = [IdleReq EXCEPT !.pc = "failed", !.status = 500]]
  /\ UNCHANGED <<db, product, priceentry, searchrecord>>
  /\ OtherVarsIdle

Init ==
  /\ db \in BOOLEAN
  /\ product = <<>>
  /\ priceentry = [pid \in ProductIds |-> <<>>]
  /\ searchrecord = EmptyBag
  /\ req = [r \in Reqs |-> IdleReq]
  /\ hist = IdleHist
  /\ trend = IdleTrend

Next ==
  \E r \in Reqs :
    \/ ensure_find_one(r)
    \/ ensure_insert_one(r)
    \/ ensure_insert_many(r)
    \/ fgp_ephemeral(r)
    \/ fgp_find(r)
    \/ fgp_insert_many(r)
    \/ persist_search_record(r)
    \/ store_error(r)

Spec == Init /\ [][Next]_vars

\* ----------------------------------------------------------- make_history
SecondsPerDay == 86400
MinPrice == 100

Max(a, b) == IF a >= b THEN a ELSE b
Min(a, b) == IF a <= b THEN a ELSE b

\* the base prices make_history is called with: one whose walk meets the
\* floor, one that stays clear of it
HistoryBases == {110, 700}

SearchIdle == UNCHANGED <<db, product, priceentry, searchrecord, req>>

\* lines 102-103, and the range(days, -1, -1) of line 104
make_history_call ==
  /\ hist.pc = "idle"
  /\ \E base \in HistoryBases, days \in 0..MaxDays :
       hist' = [pc |-> "loop", base |-> base, days |-> days, i |-> days,
                cur |-> base, start |-> hist.now, now |-> hist.now, pts |-> <<>>]
  /\ SearchIdle /\ UNCHANGED trend

\* mutant: no floor
next_price_unfloored(cur, u) == rand_price(cur, u)

\* line 105
next_price(cur, u) == Max(MinPrice, rand_price(cur, u))

\* line 106: datetime.now(timezone.utc) - timedelta(days=i), in seconds
point_date(now, i) == now - i * SecondsPerDay

\* lines 104-106: one iteration; the clock may have advanced since the last
make_history_iter ==
  /\ hist.pc = "loop"
  /\ hist.i >= 0
  /\ \E u \in 0..2, tick \in 0..1 :
       LET now == hist.now + tick
           cur == next_price(hist.cur, u)
       IN  hist' = [hist EXCEPT !.now = now, !.cur = cur, !.i = @ - 1,
                      !.pts = Append(@, [date |-> point_date(now, hist.i),
                                         price |-> cur])]
  /\ SearchIdle /\ UNCHANGED trend

\* line 107
make_history_return ==
  /\ hist.pc = "loop"
  /\ hist.i < 0
  /\ hist' = [hist EXCEPT !.pc = "done"]
  /\ SearchIdle /\ UNCHANGED trend

InitHistory ==
  /\ db = FALSE
  /\ product = <<>>
  /\ priceentry = [pid \in ProductIds |-> <<>>]
  /\ searchrecord = EmptyBag
  /\ req = [r \in Reqs |-> IdleReq]
  /\ hist = IdleHist
  /\ trend = IdleTrend

NextHistory ==
  \/ make_history_call
  \/ make_history_iter
  \/ make_history_return

SpecHistory == InitHistory /\ [][NextHistory]_vars

\* --------------------------------------------------------- trending_deals
TrendNames == <<"iPhone 15", "Samsung Galaxy S23", "Sony WH-1000XM5",
                "Nike Air Max", "Dell XPS 13", "MacBook Air M2">>
TrendBrands == <<"Apple", "Samsung", "Sony", "Nike", "Dell", "Apple">>
TrendCategories == <<"Mobiles", "Headphones", "Shoes", "Laptops">>

TrendLo == 999
TrendHi == 149999
\* random.uniform(999, 149999), sampled at two points of the range
TrendBases == SelectSeq(<<1200, 90000>>, LAMBDA b : TrendLo <= b /\ b <= TrendHi)

SampleSize == 4

\* random.sample(population, k): k distinct elements in any order
sample(population, k) ==
  { [j \in 1..k |-> population[f[j]]] :
      f \in { g \in [1..k -> 1..Len(population)] :
                \A a, b \in 1..k : a # b => g[a] # g[b] } }

\* min(platform_prices, key=lambda x: x["price"]): the first of the cheapest
RECURSIVE min_by_price(_)
min_by_price(entries) ==
  IF Len(entries) = 1 THEN Head(entries)
  ELSE LET rest == min_by_price(Tail(entries))
       IN  IF Head(entries).price <= rest.price THEN Head(entries) ELSE rest

\* mutant: the last entry taken for the cheapest
lowest_of_last(platform_prices) ==
  IF platform_prices # <<>> THEN platform_prices[Len(platform_prices)] ELSE None

\* line 335
lowest_of(platform_prices) ==
  IF platform_prices # <<>> THEN min_by_price(platform_prices) ELSE None

\* lines 318-343: one deal, its platforms in the order picked
TrendItem(picked, s) ==
  LET base == choice(TrendBases, s)
      platform_prices ==
        [j \in 1..Len(picked) |->
           [platform |-> picked[j], price |-> rand_price(base, Draw(s, j))]]
  IN  [name |-> choice(TrendNames, s), brand |-> choice(TrendBrands, s + 1),
       category |-> choice(TrendCategories, s + 2),
       image |-> choice(SAMPLE_IMAGES, s),
       platforms |-> platform_prices,
       lowest |-> lowest_of(platform_prices)]

\* line 314-316: the request arrives with its limit
trending_call ==
  /\ trend.pc = "idle"
  /\ \E limit \in 0..MaxLimit, s \in Seeds :
       trend' = [pc |-> "loop", limit |-> limit, rng |-> s, items |-> <<>>]
  /\ SearchIdle /\ UNCHANGED hist

\* lines 317-343: one iteration of for _ in range(limit)
trending_iter ==
  /\ trend.pc = "loop"
  /\ Len(trend.items) < trend.limit
  /\ \E picked \in sample(PLATFORMS, Min(SampleSize, Len(PLATFORMS))) :
       trend' = [trend EXCEPT !.items =
                   Append(@, TrendItem(picked, trend.rng + Len(trend.items)))]
  /\ SearchIdle /\ UNCHANGED hist

\* line 344
trending_return ==
  /\ trend.pc = "loop"
  /\ Len(trend.items) >= trend.limit
  /\ trend' = [trend EXCEPT !.pc = "done"]
  /\ SearchIdle /\ UNCHANGED hist

NextTrending ==
  \/ trending_call
  \/ trending_iter
  \/ trending_return

SpecTrending == InitHistory /\ [][NextTrending]_vars


\* ------------------------------------------------------------- properties
Returned(r) == req[r].pc \in {"record", "done"}

\* the request inserted a product of its own (its find_one missed)
Inserted(r) ==
  /\ db
  /\ ~req[r].found
  /\ req[r].pc \in {"insert_many", "fgp", "record", "done"}

\* the request is past the insert_many of ensure_product_in_db
SeededOwn(r) == Inserted(r) /\ req[r].pc # "insert_many"

PlatformsOf(entries) == [k \in 1..Len(entries) |-> entries[k].platform]

\* C1: no two records of the product collection have the same
\* normalized_name, in every reachable state of the store.
C1_UniqueNormalizedName ==
  \A i, j \in 1..Len(product) :
    i # j => product[i].normalized_name # product[j].normalized_name

\* C2: once a product has persisted price entries, a find_or_generate_prices
\* for it returns exactly the persisted entries and inserts none, and the
\* rest of that search inserts none either.
C2_StablePrices ==
  [][\A r \in Reqs :
       /\ ( /\ db
            /\ req[r].pc = "fgp"
            /\ req[r].product_doc.id # NoId
            /\ priceentry[req[r].product_doc.id] # <<>>
            /\ req'[r].pc \notin {"fgp", "failed"} )
          => /\ req'[r].pc = "record"
             /\ req'[r].prices = priceentry[req[r].product_doc.id]
             /\ priceentry' = priceentry
       /\ (req[r].pc = "record" /\ req'[r].pc # "record")
          => priceentry' = priceentry]_vars

\* C2 witness: a second search found the product another search had inserted
\* and seeded, and got the seeded platforms and prices.
C2_Witness ==
  \E r, o \in Reqs :
    /\ r # o
    /\ req[o].pc = "done" /\ SeededOwn(o)
    /\ req[r].pc = "done" /\ req[r].found
    /\ req[r].product_doc.id = req[o].product_doc.id
    /\ req[r].prices = req[o].prices
    /\ req[r].prices = priceentry[req[r].product_doc.id]
    /\ Len(req[r].prices) = Len(PLATFORMS)

\* C3: the platform list of a response is exactly the resolved entries whose
\* price p has price_min <= p <= price_max, an absent bound not constraining;
\* the response holds exactly one result with the product's name, brand,
\* category and image, also when no entry qualifies.
C3_FilteredPlatforms ==
  \A r \in Reqs :
    Returned(r) =>
      LET a == req[r]
          kept == SelectSeq(a.prices, LAMBDA p :
                    /\ (a.price_min # <<>> => a.price_min[1] <= p.price)
                    /\ (a.price_max # <<>> => p.price <= a.price_max[1]))
          res == a.response.results
      IN  /\ Len(res) = 1
          /\ res[1].name = a.product_doc.name
          /\ res[1].brand = a.product_doc.brand
          /\ res[1].category = a.product_doc.category
          /\ res[1].image = a.product_doc.image
          /\ Len(res[1].platforms) = Len(kept)
          /\ \A k \in 1..Len(kept) :
               /\ res[1].platforms[k].platform = kept[k].platform
               /\ res[1].platforms[k].price = kept[k].price

\* C3 witness: a response whose price range no resolved entry meets: no
\* platforms, the product still described.
C3_Witness ==
  \E r \in Reqs :
    /\ req[r].pc = "done"
    /\ req[r].price_min # <<>>
    /\ Len(req[r].prices) = Len(PLATFORMS)
    /\ Len(req[r].response.results) = 1
    /\ req[r].response.results[1].platforms = <<>>
    /\ req[r].response.results[1].name = req[r].q
    /\ req[r].response.results[1].image \in {SAMPLE_IMAGES[k] : k \in 1..Len(SAMPLE_IMAGES)}

\* C4: whatever create_document does, the request ends with status 200 and
\* the response assembled before the write.
C4_RecordFailureHidden ==
  [][\A r \in Reqs :
       (req[r].pc = "record" /\ req'[r].pc # "record")
         => /\ req'[r].pc = "done"
            /\ req'[r].status = 200
            /\ req'[r].response = req[r].response]_vars

\* C4 witness: the only search record write so far failed, its request
\* answered 200 with its result.
C4_Witness ==
  \E r \in Reqs :
    /\ db
    /\ req[r].pc = "done"
    /\ req[r].attempts = 1
    /\ searchrecord = EmptyBag
    /\ req[r].status = 200
    /\ Len(req[r].response.results) = 1

\* C5: with a store, a search whose normalized name is that of a stored
\* product gets the stored record, first match, and the step changes neither
\* collection: no insert, no update, no seeding.
C5_ExistingReturnedUnchanged ==
  [][\A r \in Reqs :
       ( /\ db
         /\ req[r].pc = "idle"
         /\ req'[r].pc \notin {"idle", "failed"}
         /\ \E i \in 1..Len(product) :
              product[i].normalized_name = normalize(req'[r].q) )
       => /\ req'[r].pc = "fgp"
          /\ \E i \in 1..Len(product) :
               /\ product[i].normalized_name = normalize(req'[r].q)
               /\ \A j \in 1..(i - 1) :
                    product[j].normalized_name # normalize(req'[r].q)
               /\ req'[r].product_doc = product[i]
          /\ product' = product
          /\ priceentry' = priceentry]_vars

\* C5 witness: a search spelled differently from the one that created the
\* product, with another brand, resolved to that product, which still has
\* the brand it was created with and its one seeded set.
C5_Witness ==
  \E r, o \in Reqs :
    /\ SeededOwn(o)
    /\ req[r].found
    /\ req[r].q # req[o].q
    /\ req[r].brand # req[o].brand
    /\ req[o].q = <<" ", "i", "P", " ", " ", "5", " ">>
    /\ req[r].product_doc.normalized_name = <<"i", "p", " ", "5">>
    /\ req[r].product_doc = product[req[o].product_doc.id]
    /\ req[r].product_doc.brand = req[o].brand
    /\ Len(product) = 1
    /\ Len(priceentry[1]) = Len(PLATFORMS)

\* C6 as stated: with a store, every search, failed or not, has made exactly
\* one search record attempt when it ends.
C6_RecordedWhateverTheOutcome ==
  \A r \in Reqs :
    (db /\ req[r].pc \in {"done", "failed"}) => req[r].attempts = 1

\* C6 amended: with a store, a search that returns its response has made
\* exactly one search record attempt, and a search that failed in product or
\* price resolution has made none.
C6_RecordedOnlyWhenAnswered ==
  \A r \in Reqs :
    db => /\ req[r].pc = "done" => req[r].attempts = 1
          /\ req[r].pc # "done" => req[r].attempts = 0

\* C6 witness: one search answered with its attempt made, one failed with a
\* store error and no attempt.
C6_Witness ==
  \E r, o \in Reqs :
    /\ db
    /\ req[r].pc = "done" /\ req[r].attempts = 1
    /\ req[o].pc = "failed" /\ req[o].status = 500 /\ req[o].attempts = 0

\* C7: make_history(base, days) returns days + 1 points, oldest first, dates
\* strictly increasing from days days ago to today, each price at least 100
\* and within 15 % of the price before it unless the floor replaced it.
C7_History ==
  hist.pc = "done" =>
    LET pts == hist.pts
        n == hist.days + 1
        prev(k) == IF k = 1 THEN hist.base ELSE pts[k - 1].price
    IN  /\ Len(pts) = n
        /\ \A k \in 1..(n - 1) : pts[k].date < pts[k + 1].date
        /\ \A k \in 1..n :
             /\ hist.start <= pts[k].date + (n - k) * SecondsPerDay
             /\ pts[k].date + (n - k) * SecondsPerDay <= hist.now
             /\ pts[k].price >= 100
             /\ \/ pts[k].price = 100 /\ 100 * 100 >= 85 * prev(k)
                \/ /\ 85 * prev(k) <= 100 * pts[k].price
                   /\ 100 * pts[k].price <= 115 * prev(k)

\* C7 witness: a full-length history in which the floor set one price and the
\* walk set another.
C7_Witness ==
  /\ hist.pc = "done"
  /\ hist.days = MaxDays
  /\ Len(hist.pts) = MaxDays + 1
  /\ \E k \in 1..Len(hist.pts) : hist.pts[k].price = 100
  /\ \E k \in 1..Len(hist.pts) : hist.pts[k].price > 100

\* C8: trending_deals(limit) returns limit items, each with min(4, number of
\* platforms) distinct platforms and a lowest entry that is one of them and
\* costs no more than any of them.
C8_Trending ==
  trend.pc = "done" =>
    /\ Len(trend.items) = trend.limit
    /\ \A n \in 1..Len(trend.items) :
         LET item == trend.items[n]
             ps == item.platforms
         IN  /\ Len(ps) = (IF 4 <= Len(PLATFORMS) THEN 4 ELSE Len(PLATFORMS))
             /\ \A a, b \in 1..Len(ps) : a # b => ps[a].platform # ps[b].platform
             /\ \A a \in 1..Len(ps) :
                  \E k \in 1..Len(PLATFORMS) : ps[a].platform = PLATFORMS[k]
             /\ \E a \in 1..Len(ps) : item.lowest = ps[a]
             /\ \A a \in 1..Len(ps) : item.lowest.price <= ps[a].price

\* C8 witness: the largest limit answered, an item whose platforms differ in
\* price.
C8_Witness ==
  /\ trend.pc = "done"
  /\ trend.limit = MaxLimit
  /\ Len(trend.items) = MaxLimit
  /\ \E a \in 1..Len(trend.items[1].platforms) :
       trend.items[1].lowest.price < trend.items[1].platforms[a].price

\* C9: two first-time searches for one name can both miss in find_one: each
\* search that missed inserts a product record of its own, under its own id,
\* whatever the collection holds by then, and seeds its own price entries.
C9_EachMissInserts ==
  \A r \in Reqs :
    /\ Inserted(r) =>
         /\ req[r].product_doc.id \in 1..Len(product)
         /\ product[req[r].product_doc.id] = req[r].product_doc
         /\ \A o \in Reqs :
              (o # r /\ Inserted(o)) => req[o].product_doc.id # req[r].product_doc.id
    /\ SeededOwn(r) =>
         Len(priceentry[req[r].product_doc.id]) >= Len(PLATFORMS)

\* C9 witness: two product records of one normalized_name, each with a
\* seeded set of price entries under its id.
C9_Witness ==
  \E r, o \in Reqs :
    /\ r # o
    /\ SeededOwn(r) /\ SeededOwn(o)
    /\ req[r].product_doc.id # req[o].product_doc.id
    /\ product[req[r].product_doc.id].normalized_name
         = product[req[o].product_doc.id].normalized_name
    /\ PlatformsOf(priceentry[req[r].product_doc.id]) = PLATFORMS
    /\ PlatformsOf(priceentry[req[o].product_doc.id]) = PLATFORMS

\* C10: a product id has no persisted price entries or exactly one per
\* platform, in every reachable state of the store.
C10_OneEntryPerPlatform ==
  \A pid \in ProductIds :
    priceentry[pid] = <<>> \/ PlatformsOf(priceentry[pid]) = PLATFORMS

====
